---- MODULE Spec2Model ----
(***************************************************************************)
(* Model of the Custom Clearance doctype controller and its whitelisted    *)
(* entry points (custom_clearance/doctype/custom_clearance/                *)
(* custom_clearance.py).  The database is the variable db, every entry     *)
(* point is one action, and the outcome of the last call is kept in ret.   *)
(***************************************************************************)
EXTENDS Integers, Sequences, FiniteSets, TLC

VARIABLES
    db,        \* persisted Custom Clearance documents, by name
    today,     \* index into Days of the current date (frappe.utils.today)
    invoices,  \* number of Sales Invoices inserted so far
    comments,  \* the Comment table, in insertion order
    todos,     \* the ToDo table, in insertion order
    notifications, \* the Notification Log table, in insertion order
    out,       \* the list the last get_comments call returned
    ret,       \* the last call: entry point, session user, error kind raised
    calls      \* the create_sales_invoice requests in progress, by worker

vars == <<db, today, invoices, comments, todos, notifications, out, ret, calls>>

(* The tables and the return value the document workflow leaves alone. *)
side == <<comments, todos, notifications, out>>

-----------------------------------------------------------------------------
(* Values *)

None == "None"

Truthy(x) == x # None /\ x # ""

ClearanceNames == {"CC-0001", "CC-0404"}

Statuses ==
    {"Document Submitting", "In Review", "Review", "Risk Analysis",
     "Cleared", "Green", "Yellow", "Red"}

RowStatuses == {"In Review", "Accepted", "Declined"}

RowNames == {"row1", "row2", "row9"}

Reasons == {None, "blurred scan"}

FileUrls == {"/files/a.pdf"}

Days == <<"2026-01-01", "2026-01-02">>

MaxInvoices == 2

(* Names the naming series gives to the Sales Invoices, in insertion order. *)
InvoiceNames == <<"SINV-1", "SINV-2", "SINV-3", "SINV-4">>

InvoiceStatuses ==
    {"Draft", "Unpaid", "Paid", "Partly Paid", "Partly Paid and Discounted",
     "Overdue", "Cancelled", "Credit Note Issued", "Written Off"}

(* frappe.utils.flt: a numeric string parses to its number, anything else   *)
(* to 0.                                                                    *)
flt(x) == IF x \in {"50", "0"} THEN x ELSE "0"

-----------------------------------------------------------------------------
(* Users, contacts and portal membership (collaborator data) *)

Users == {"Guest", "Administrator", "staff@cc", "alice@a", "bob@b"}

(* Customer of the first Customer link of the Contact whose user is u. *)
ContactCustomer(u) ==
    CASE u = "alice@a"  -> "Customer A"
      [] u = "carol@ab" -> "Customer A"
      [] OTHER          -> None

(* Parent Customer of the first Portal User row of u. *)
PortalCustomer(u) ==
    CASE u = "bob@b"    -> "Customer B"
      [] u = "carol@ab" -> "Customer B"
      [] OTHER          -> None

(* The customer-linkage lookup every entry point repeats: contact first,   *)
(* portal membership only if the contact gave no customer.                 *)
linked_customer(u) ==
    IF Truthy(ContactCustomer(u)) THEN ContactCustomer(u) ELSE PortalCustomer(u)

(* The User table: the session users and two more accounts. *)
Accounts == Users \cup {"clerk@cc", "carol@ab", "dave@d"}

(* frappe.get_roles(user). *)
Roles(u) ==
    CASE u = "Guest"         -> {"Guest"}
      [] u = "Administrator" -> {"Administrator", "System Manager"}
      [] u = "staff@cc"      -> {"System Manager"}
      [] u = "clerk@cc"      -> {"Customer", "Accounts User"}
      [] OTHER               -> {"Customer"}

(* Portal User rows whose parent is the customer: their users. *)
PortalUsers(customer) == {u \in Accounts : PortalCustomer(u) = customer}

(* The Contact table: link to a customer and email of each contact.       *)
Contacts == {"c-alice", "c-carol", "c-d1", "c-d2"}

ContactLink(c) ==
    CASE c = "c-alice" -> "Customer A"
      [] c = "c-carol" -> "Customer A"
      [] c = "c-d1"    -> "Customer D"
      [] c = "c-d2"    -> "Customer D"

ContactEmail(c) ==
    CASE c = "c-alice" -> "alice@a"
      [] c = "c-carol" -> "carol@ab"
      [] c = "c-d1"    -> None
      [] c = "c-d2"    -> "dave@d"

(* frappe.db.get_value("User", {"email": email}, "name"). *)
UserByEmail(email) == IF email \in Accounts THEN email ELSE None

Customers == {"Customer A", "Customer B", "Customer C", "Customer D"}

-----------------------------------------------------------------------------
(* CustomClearance.validate *)

(* Variant of the scan that judges by the first mandatory row alone. *)
ScanRequired_FirstOnly(rows, i, has) ==
    LET req == {j \in i..Len(rows) : rows[j].is_required} IN
    IF req = {} THEN <<has, TRUE>>
    ELSE LET f == CHOOSE j \in req : \A k \in req : j <= k IN
         <<TRUE, rows[f].status = "Accepted">>

(* The scan of validate: <<has_required_docs, all_mandatory_accepted>>,    *)
(* stopping at the first mandatory row that is not Accepted.               *)
RECURSIVE ScanRequired(_, _, _)
ScanRequired(rows, i, has) ==
    IF i > Len(rows) THEN <<has, TRUE>>
    ELSE IF rows[i].is_required
         THEN IF rows[i].status # "Accepted" THEN <<TRUE, FALSE>>
              ELSE ScanRequired(rows, i + 1, TRUE)
         ELSE ScanRequired(rows, i + 1, has)

(* Variant of validate without the auto-promotion. *)
auto_promote_Never(doc) == doc.status

(* Variant of the auto-promotion that waits for the optional rows too. *)
auto_promote_AllRows(doc) ==
    IF /\ doc.status = "Document Submitting"
       /\ Len(doc.required_documents) > 0
       /\ \E i \in DOMAIN doc.required_documents : doc.required_documents[i].is_required
       /\ \A i \in DOMAIN doc.required_documents :
             doc.required_documents[i].status = "Accepted"
    THEN "In Review"
    ELSE doc.status

(* The auto-promotion part of validate: the status validate leaves in the  *)
(* document.                                                               *)
auto_promote(doc) ==
    IF doc.status = "Document Submitting" /\ Len(doc.required_documents) > 0
    THEN LET s == ScanRequired(doc.required_documents, 1, FALSE) IN
         IF s[1] /\ s[2] THEN "In Review" ELSE doc.status
    ELSE doc.status

(* Document.has_value_changed("status"): before is <<>> for a new document *)
(* and <<persisted document>> otherwise.                                   *)
has_value_changed_status(doc, before) ==
    IF Len(before) = 0 THEN TRUE ELSE before[1].status # doc.status

(* Variant of the guard that also lets Review move to Risk Analysis. *)
validate_status_transition_FromReview(doc, before) ==
    \/ /\ doc.status = "Risk Analysis"
       /\ Len(before) > 0
       /\ before[1].status \notin {"In Review", "Review", "Risk Analysis"}
    \/ /\ doc.status = "Cleared"
       /\ Len(before) > 0
       /\ before[1].status \notin {"Risk Analysis", "Cleared"}

(* Variant of the guard that also lets In Review move to Cleared. *)
validate_status_transition_SkipRisk(doc, before) ==
    \/ /\ doc.status = "Risk Analysis"
       /\ Len(before) > 0
       /\ before[1].status \notin {"In Review", "Risk Analysis"}
    \/ /\ doc.status = "Cleared"
       /\ Len(before) > 0
       /\ before[1].status \notin {"In Review", "Risk Analysis", "Cleared"}

(* Variant of the guard that also judges a document that was never saved. *)
validate_status_transition_OnCreate(doc, before) ==
    \/ /\ doc.status = "Risk Analysis"
       /\ (Len(before) = 0 \/ before[1].status \notin {"In Review", "Risk Analysis"})
    \/ /\ doc.status = "Cleared"
       /\ (Len(before) = 0 \/ before[1].status \notin {"Risk Analysis", "Cleared"})

(* Variant of the guard under which nothing leaves Cleared. *)
validate_status_transition_ClearedFinal(doc, before) ==
    \/ /\ doc.status = "Risk Analysis"
       /\ Len(before) > 0
       /\ before[1].status \notin {"In Review", "Risk Analysis"}
    \/ /\ doc.status = "Cleared"
       /\ Len(before) > 0
       /\ before[1].status \notin {"Risk Analysis", "Cleared"}
    \/ /\ doc.status # "Cleared"
       /\ Len(before) > 0
       /\ before[1].status = "Cleared"

(* TRUE when validate_status_transition throws. *)
validate_status_transition(doc, before) ==
    \/ /\ doc.status = "Risk Analysis"
       /\ Len(before) > 0
       /\ before[1].status \notin {"In Review", "Risk Analysis"}
    \/ /\ doc.status = "Cleared"
       /\ Len(before) > 0
       /\ before[1].status \notin {"Risk Analysis", "Cleared"}

(* Variant of validate whose guard runs on every save and has no          *)
(* exception for a status that stays the same.                             *)
validate_NoSelfTransition(doc, before) ==
    [doc    |-> doc,
     thrown |-> /\ Len(before) > 0
                /\ \/ doc.status = "Risk Analysis" /\ before[1].status # "In Review"
                   \/ doc.status = "Cleared" /\ before[1].status # "Risk Analysis"]

(* validate: the document it leaves and whether it threw. *)
validate(doc, before) ==
    LET promoted == [doc EXCEPT !.status = auto_promote(doc)] IN
    [doc    |-> promoted,
     thrown |-> /\ has_value_changed_status(promoted, before)
                /\ validate_status_transition(promoted, before)]

(* Document.save of an existing document: _doc_before_save is the          *)
(* persisted version, validate runs, and the document is written only if   *)
(* validate did not throw.                                                 *)
save(doc, name) == validate(doc, <<db[name]>>)

(* Document.insert of a new document: validate runs with no                *)
(* _doc_before_save.                                                       *)
before_insert(doc) == validate(doc, <<>>)

-----------------------------------------------------------------------------
(* Outcomes *)

Throw(op, user, kind) ==
    /\ ret' = [op |-> op, user |-> user, err |-> kind]
    /\ UNCHANGED <<db, today, invoices, side, calls>>

Return(op, user) ==
    /\ ret' = [op |-> op, user |-> user, err |-> "ok"]
    /\ UNCHANGED calls

-----------------------------------------------------------------------------
(* Child-table helpers *)

(* Variant of the search that settles for the last row when no row has    *)
(* the name.                                                               *)
FindRow_LastRow(rows, row_name, i) ==
    IF \E j \in DOMAIN rows : rows[j].name = row_name
    THEN CHOOSE j \in DOMAIN rows :
            /\ rows[j].name = row_name
            /\ \A k \in DOMAIN rows : rows[k].name = row_name => j <= k
    ELSE Len(rows)

(* Index of the first row whose name is row_name, 0 if there is none: the  *)
(* for/break loop of the row-update entry points.                          *)
RECURSIVE FindRow(_, _, _)
FindRow(rows, row_name, i) ==
    IF i > Len(rows) THEN 0
    ELSE IF rows[i].name = row_name THEN i
    ELSE FindRow(rows, row_name, i + 1)

(* The scan after the save in update_document_status: all_mandatory_accepted *)
(* only, with no "saw a mandatory row" flag.                               *)
RECURSIVE ScanAccepted(_, _)
ScanAccepted(rows, i) ==
    IF i > Len(rows) THEN TRUE
    ELSE IF rows[i].is_required /\ rows[i].status # "Accepted" THEN FALSE
    ELSE ScanAccepted(rows, i + 1)

-----------------------------------------------------------------------------
(* update_document_attachment *)

(* Lines 167-192: TRUE when the caller may update the clearance. *)
attachment_permitted(user, clearance) ==
    \/ user = "Administrator"
    \/ LET customer == linked_customer(user) IN
       ~(~Truthy(customer) \/ clearance.customer # customer)

(* Variant of the attachment update that resets a Declined row whether or *)
(* not the upload is a re-upload.                                          *)
attach_row_AlwaysReset(req_doc, file_url, is_reupload) ==
    IF req_doc.status = "Declined"
    THEN [req_doc EXCEPT !.attachment = file_url, !.status = "In Review",
                         !.reason = None]
    ELSE [req_doc EXCEPT !.attachment = file_url]

(* Lines 196-204: the row after the attachment update. *)
attach_row(req_doc, file_url, is_reupload) ==
    LET r1 == [req_doc EXCEPT !.attachment = file_url] IN
    IF is_reupload /\ req_doc.status = "Declined"
    THEN [r1 EXCEPT !.status = "In Review", !.reason = None]
    ELSE r1

update_document_attachment(user, clearance_name, row_name, file_url, is_reupload) ==
    LET op == "update_document_attachment" IN
    IF user = "Guest" THEN Throw(op, user, "PermissionError")
    ELSE IF clearance_name \notin DOMAIN db THEN Throw(op, user, "DoesNotExistError")
    ELSE
      LET clearance == db[clearance_name] IN
      IF ~attachment_permitted(user, clearance) THEN Throw(op, user, "PermissionError")
      ELSE
        LET i == FindRow(clearance.required_documents, row_name, 1) IN
        IF i = 0 THEN Throw(op, user, "DoesNotExistError")
        ELSE
          LET c1 == [clearance EXCEPT !.required_documents[i] =
                        attach_row(@, file_url, is_reupload)]
              saved == save(c1, clearance_name)
          IN
          IF saved.thrown THEN Throw(op, user, "ValidationError")
          ELSE /\ db' = [db EXCEPT ![clearance_name] = saved.doc]
               /\ Return(op, user)
               /\ UNCHANGED <<today, invoices, side>>

-----------------------------------------------------------------------------
(* update_document_status *)

(* Lines 226-254: TRUE when the caller passes the permission check. *)
status_permitted(user, clearance) ==
    \/ user = "Administrator"
    \/ LET customer == linked_customer(user) IN
       IF Truthy(customer) /\ clearance.customer = customer THEN TRUE
       ELSE ~(~Truthy(customer) \/ clearance.customer # customer)

(* Lines 258-264: the row after the status update. *)
judge_row(req_doc, status, reason) ==
    LET r1 == [req_doc EXCEPT !.status = status] IN
    IF Truthy(reason) THEN [r1 EXCEPT !.reason = reason] ELSE r1

(* Variant of the check after the save that sends a clearance In Review   *)
(* back when a mandatory row is no longer Accepted.                        *)
promote_after_save_Demotes(clearance) ==
    IF /\ clearance.status = "Document Submitting"
       /\ Len(clearance.required_documents) > 0
       /\ ScanAccepted(clearance.required_documents, 1)
    THEN "Review"
    ELSE IF /\ clearance.status = "In Review"
            /\ ~ScanAccepted(clearance.required_documents, 1)
    THEN "Document Submitting"
    ELSE clearance.status

(* Lines 273-283: the status left by the check that follows the save. *)
promote_after_save(clearance) ==
    IF /\ clearance.status = "Document Submitting"
       /\ Len(clearance.required_documents) > 0
       /\ ScanAccepted(clearance.required_documents, 1)
    THEN "Review"
    ELSE clearance.status

update_document_status(user, clearance_name, row_name, status, reason) ==
    LET op == "update_document_status" IN
    IF user = "Guest" THEN Throw(op, user, "PermissionError")
    ELSE IF clearance_name \notin DOMAIN db THEN Throw(op, user, "DoesNotExistError")
    ELSE
      LET clearance == db[clearance_name] IN
      IF ~status_permitted(user, clearance) THEN Throw(op, user, "PermissionError")
      ELSE
        LET i == FindRow(clearance.required_documents, row_name, 1) IN
        IF i = 0 THEN Throw(op, user, "DoesNotExistError")
        ELSE
          LET c1 == [clearance EXCEPT !.required_documents[i] =
                        judge_row(@, status, reason)]
              saved == save(c1, clearance_name)
          IN
          IF saved.thrown THEN Throw(op, user, "ValidationError")
          ELSE /\ db' = [db EXCEPT ![clearance_name] =
                            [saved.doc EXCEPT !.status = promote_after_save(saved.doc)]]
               /\ Return(op, user)
               /\ UNCHANGED <<today, invoices, side>>

-----------------------------------------------------------------------------
(* update_clearance_status *)

(* Variant that writes the comment to the database before the save. *)
update_clearance_status_CommentFirst(user, clearance_name, status, comment, additional_payment_amount) ==
    LET op == "update_clearance_status" IN
    IF user = "Guest" THEN Throw(op, user, "PermissionError")
    ELSE IF clearance_name \notin DOMAIN db THEN Throw(op, user, "DoesNotExistError")
    ELSE
      LET clearance == db[clearance_name]
          customer == linked_customer(user)
          is_customer == /\ user # "Administrator"
                         /\ Truthy(customer)
                         /\ clearance.customer = customer
      IN
      IF is_customer THEN Throw(op, user, "PermissionError")
      ELSE
        LET c1 == [clearance EXCEPT !.status = status]
            c2 == IF Truthy(comment)
                  THEN [c1 EXCEPT !.risk_status_comment = comment] ELSE c1
            c3 == IF Truthy(additional_payment_amount)
                  THEN [c2 EXCEPT !.additional_payment_amount = flt(additional_payment_amount)]
                  ELSE c2
            saved == save(c3, clearance_name)
        IN
        IF saved.thrown
        THEN /\ db' = [db EXCEPT ![clearance_name].risk_status_comment =
                                     c3.risk_status_comment]
             /\ ret' = [op |-> op, user |-> user, err |-> "ValidationError"]
             /\ UNCHANGED <<today, invoices, side, calls>>
        ELSE /\ db' = [db EXCEPT ![clearance_name] = saved.doc]
             /\ Return(op, user)
             /\ UNCHANGED <<today, invoices, side>>

update_clearance_status(user, clearance_name, status, comment, additional_payment_amount) ==
    LET op == "update_clearance_status" IN
    IF user = "Guest" THEN Throw(op, user, "PermissionError")
    ELSE IF clearance_name \notin DOMAIN db THEN Throw(op, user, "DoesNotExistError")
    ELSE
      LET clearance == db[clearance_name]
          customer == linked_customer(user)
          is_customer == /\ user # "Administrator"
                         /\ Truthy(customer)
                         /\ clearance.customer = customer
      IN
      IF is_customer THEN Throw(op, user, "PermissionError")
      ELSE
        LET c1 == [clearance EXCEPT !.status = status]
            c2 == IF Truthy(comment)
                  THEN [c1 EXCEPT !.risk_status_comment = comment] ELSE c1
            c3 == IF Truthy(additional_payment_amount)
                  THEN [c2 EXCEPT !.additional_payment_amount = flt(additional_payment_amount)]
                  ELSE c2
            saved == save(c3, clearance_name)
        IN
        IF saved.thrown THEN Throw(op, user, "ValidationError")
        ELSE /\ db' = [db EXCEPT ![clearance_name] = saved.doc]
             /\ Return(op, user)
             /\ UNCHANGED <<today, invoices, side>>

-----------------------------------------------------------------------------
(* create_sales_invoice *)

(* Variant of the decorator with allow_guest=True. *)
whitelisted_AllowGuest(user) == TRUE

(* @frappe.whitelist() without allow_guest: the request handler refuses a  *)
(* Guest session before it calls the function.                             *)
whitelisted(user) == user # "Guest"

(* frappe.db.get_value("Item", {"item_code": "Custom Clearance Service"},  *)
(* "name"): the item the installation creates.                             *)
service_item == "Custom Clearance Service"

(* Variant of the check that never finds an invoice on the clearance. *)
already_invoiced_Never(custom_clearance) == FALSE

(* Line 76: the clearance already carries a Sales Invoice. *)
already_invoiced(custom_clearance) == Truthy(custom_clearance.sales_invoice)

create_sales_invoice(user, source_name) ==
    LET op == "create_sales_invoice" IN
    IF ~whitelisted(user) THEN Throw(op, user, "PermissionError")
    ELSE IF source_name \notin DOMAIN db THEN Throw(op, user, "DoesNotExistError")
    ELSE
      LET custom_clearance == db[source_name] IN
      IF already_invoiced(custom_clearance) THEN Throw(op, user, "ValidationError")
      ELSE IF ~Truthy(service_item) THEN Throw(op, user, "ValidationError")
      ELSE /\ invoices < MaxInvoices
           /\ invoices' = invoices + 1
           /\ db' = [db EXCEPT ![source_name].sales_invoice = InvoiceNames[invoices + 1]]
           /\ Return(op, user)
           /\ UNCHANGED <<today, side>>

(* create_sales_invoice as the request handler runs it next to another    *)
(* request: the read of the clearance and its checks (lines 73-84), the    *)
(* insert of the Sales Invoice (line 103) and the write of the link        *)
(* (line 106) are separate steps, and nothing locks the clearance between  *)
(* them.                                                                   *)
Workers == {"w1", "w2"}

Idle == [pc |-> "idle", user |-> None, source_name |-> None, sales_invoice |-> None]

NoCalls == [w \in Workers |-> Idle]

create_sales_invoice_read(w, user, source_name) ==
    LET op == "create_sales_invoice" IN
    /\ calls[w].pc = "idle"
    /\ IF ~whitelisted(user) THEN Throw(op, user, "PermissionError")
       ELSE IF source_name \notin DOMAIN db THEN Throw(op, user, "DoesNotExistError")
       ELSE
         LET custom_clearance == db[source_name] IN
         IF already_invoiced(custom_clearance) THEN Throw(op, user, "ValidationError")
         ELSE IF ~Truthy(service_item) THEN Throw(op, user, "ValidationError")
         ELSE /\ calls' = [calls EXCEPT ![w] =
                             [pc |-> "insert", user |-> user,
                              source_name |-> source_name, sales_invoice |-> None]]
              /\ UNCHANGED <<db, today, invoices, side, ret>>

create_sales_invoice_insert(w) ==
    /\ calls[w].pc = "insert"
    /\ invoices < MaxInvoices
    /\ invoices' = invoices + 1
    /\ calls' = [calls EXCEPT ![w].pc = "db_set",
                              ![w].sales_invoice = InvoiceNames[invoices + 1]]
    /\ UNCHANGED <<db, today, side, ret>>

create_sales_invoice_db_set(w) ==
    /\ calls[w].pc = "db_set"
    /\ db' = [db EXCEPT ![calls[w].source_name].sales_invoice = calls[w].sales_invoice]
    /\ ret' = [op |-> "create_sales_invoice", user |-> calls[w].user, err |-> "ok"]
    /\ calls' = [calls EXCEPT ![w] = Idle]
    /\ UNCHANGED <<today, invoices, side>>

-----------------------------------------------------------------------------
(* Sales Invoice event handlers *)

(* frappe.db.get_value("Custom Clearance", {"sales_invoice": name}, "name"): *)
(* the clearances the lookup can return.                                   *)
LinkedTo(invoice_name) ==
    {n \in DOMAIN db : db[n].sales_invoice = invoice_name}

(* Variant of the mapping that misses the discounted partly-paid status. *)
payment_status_of_PartlyOnly(invoice_status) ==
    IF invoice_status = "Paid" THEN "Paid"
    ELSE IF invoice_status = "Partly Paid" THEN "Partially Paid"
    ELSE "Pending"

(* Lines 118-127: Sales Invoice status to payment status. *)
payment_status_of(invoice_status) ==
    IF invoice_status = "Paid" THEN "Paid"
    ELSE IF invoice_status \in {"Partly Paid", "Partly Paid and Discounted"}
         THEN "Partially Paid"
    ELSE IF invoice_status \in
              {"Draft", "Unpaid", "Overdue", "Unpaid and Discounted",
               "Overdue and Discounted", "Submitted", "Cancelled", "Return",
               "Credit Note Issued", "Internal Transfer"}
         THEN "Pending"
    ELSE "Pending"

(* Variant of the mirror that also clears the clearance once paid. *)
mirror_payment_ClearsOnPaid(clearance, invoice_status) ==
    LET c1 == [clearance EXCEPT !.payment_status = payment_status_of(invoice_status)] IN
    IF invoice_status = "Paid"
    THEN [c1 EXCEPT !.payment_date = Days[today], !.status = "Cleared"]
    ELSE c1

(* Lines 129-134: the clearance after the two set_value calls. *)
mirror_payment(clearance, invoice_status) ==
    LET c1 == [clearance EXCEPT !.payment_status = payment_status_of(invoice_status)] IN
    IF invoice_status = "Paid"
    THEN [c1 EXCEPT !.payment_date = Days[today]]
    ELSE c1

update_clearance_payment_status(doc_name, doc_status) ==
    /\ Return("update_clearance_payment_status", None)
    /\ UNCHANGED <<today, invoices, side>>
    /\ IF LinkedTo(doc_name) = {} THEN UNCHANGED db
       ELSE \E custom_clearance \in LinkedTo(doc_name) :
              db' = [db EXCEPT ![custom_clearance] = mirror_payment(@, doc_status)]

(* Variant of the cancellation that rolls back Green and Yellow only. *)
unlink_invoice_RedStays(clearance) ==
    LET c1 == [clearance EXCEPT !.sales_invoice = None,
                                !.payment_status = "Pending",
                                !.payment_date = None]
    IN
    IF c1.status \in {"Green", "Yellow"}
    THEN [c1 EXCEPT !.status = "Review"]
    ELSE c1

(* Variant of the cancellation that clears the link and nothing else of   *)
(* the payment.                                                            *)
unlink_invoice_KeepsPayment(clearance) ==
    LET c1 == [clearance EXCEPT !.sales_invoice = None] IN
    IF c1.status \in {"Green", "Yellow", "Red"}
    THEN [c1 EXCEPT !.status = "Review"]
    ELSE c1

(* Variant of the cancellation that rolls the derived statuses forward to  *)
(* Cleared.                                                                *)
unlink_invoice_Clears(clearance) ==
    LET c1 == [clearance EXCEPT !.sales_invoice = None,
                                !.payment_status = "Pending",
                                !.payment_date = None]
    IN
    IF c1.status \in {"Green", "Yellow", "Red"}
    THEN [c1 EXCEPT !.status = "Cleared"]
    ELSE c1

(* Lines 142-154: the clearance after the cancellation writes. *)
unlink_invoice(clearance) ==
    LET c1 == [clearance EXCEPT !.sales_invoice = None,
                                !.payment_status = "Pending",
                                !.payment_date = None]
    IN
    IF c1.status \in {"Green", "Yellow", "Red"}
    THEN [c1 EXCEPT !.status = "Review"]
    ELSE c1

handle_sales_invoice_cancel(doc_name) ==
    /\ Return("handle_sales_invoice_cancel", None)
    /\ UNCHANGED <<today, invoices, side>>
    /\ IF LinkedTo(doc_name) = {} THEN UNCHANGED db
       ELSE \E custom_clearance \in LinkedTo(doc_name) :
              db' = [db EXCEPT ![custom_clearance] = unlink_invoice(@)]

(* hooks.py: the doc_events the application registers, as records         *)
(* [doctype, event, handler].  The doc_events block of hooks.py is         *)
(* commented out, so there are none.                                       *)
doc_events == {}

(* The handlers the framework calls on an event of a Sales Invoice. *)
hooked(event) ==
    {h.handler : h \in {e \in doc_events :
                           e.doctype \in {"Sales Invoice", "*"} /\ e.event = event}}

(* A Sales Invoice is saved with a new status: the framework runs the      *)
(* handlers registered for the event.                                      *)
sales_invoice_on_update(doc_name, doc_status) ==
    IF "update_clearance_payment_status" \in hooked("on_update")
    THEN update_clearance_payment_status(doc_name, doc_status)
    ELSE /\ Return("Sales Invoice.on_update", None)
         /\ UNCHANGED <<db, today, invoices, side>>

(* A Sales Invoice is cancelled. *)
sales_invoice_on_cancel(doc_name) ==
    IF "handle_sales_invoice_cancel" \in hooked("on_cancel")
    THEN handle_sales_invoice_cancel(doc_name)
    ELSE /\ Return("Sales Invoice.on_cancel", None)
         /\ UNCHANGED <<db, today, invoices, side>>

(* The date advances. *)
NextDay ==
    /\ today < Len(Days)
    /\ today' = today + 1
    /\ UNCHANGED <<db, invoices, ret, side, calls>>

-----------------------------------------------------------------------------
(* Payment notifications *)

MaxTodos == 2

(* Variant of the role test that takes every logged-in user for staff. *)
is_staff_Everyone(user) == TRUE

(* Lines 498-504 and 602-608: the role test of the payment entry points. *)
is_staff(user) ==
    \/ user = "Administrator"
    \/ "Customer" \notin Roles(user)
    \/ Cardinality(Roles(user)) > 1

(* Lines 613-633: the values customer_user can end with.  get_all is not   *)
(* ordered by the code, so portal_users[0] and contacts[0] are any of the  *)
(* matching rows; only contacts[0] is looked at.                           *)
customer_users(customer) ==
    IF PortalUsers(customer) # {} THEN PortalUsers(customer)
    ELSE LET contacts == {c \in Contacts : ContactLink(c) = customer} IN
         IF contacts = {} THEN {None}
         ELSE { IF Truthy(ContactEmail(c)) THEN UserByEmail(ContactEmail(c))
                ELSE None : c \in contacts }

(* Line 642: the label is chosen by comparing with "First Payment". *)
todo_payment_label(payment_type) ==
    IF payment_type = "First Payment" THEN "First Payment" ELSE "Additional Payment"

send_payment_notification(user, clearance_name, payment_type) ==
    LET op == "send_payment_notification" IN
    IF user = "Guest" THEN Throw(op, user, "PermissionError")
    ELSE IF clearance_name \notin DOMAIN db THEN Throw(op, user, "DoesNotExistError")
    ELSE
      LET clearance == db[clearance_name] IN
      IF ~is_staff(user) THEN Throw(op, user, "PermissionError")
      ELSE \E customer_user \in customer_users(clearance.customer) :
             IF ~Truthy(customer_user) THEN Throw(op, user, "ValidationError")
             ELSE /\ Len(todos) < MaxTodos
                  /\ todos' = Append(todos,
                        [allocated_to   |-> customer_user,
                         payment_label  |-> todo_payment_label(payment_type),
                         reference_name |-> clearance_name,
                         priority       |-> "High",
                         status         |-> "Open"])
                  /\ Return(op, user)
                  /\ UNCHANGED <<db, today, invoices, comments, notifications, out>>

MaxNotifications == 1

(* Variant of the field update that keeps one amount for both payments. *)
set_payment_fields_SharedAmount(clearance, payment_type, amount, branch, account_number, custom_id_code) ==
    IF payment_type \in {"first", "second"}
    THEN LET second == payment_type = "second"
             c1 == IF Truthy(amount)
                   THEN [clearance EXCEPT !.amount = flt(amount)] ELSE clearance
             c2 == IF ~Truthy(branch) THEN c1
                   ELSE IF second THEN [c1 EXCEPT !.second_payment_branch = branch]
                   ELSE [c1 EXCEPT !.first_payment_branch = branch]
             c3 == IF ~Truthy(account_number) THEN c2
                   ELSE IF second
                   THEN [c2 EXCEPT !.second_payment_account_number = account_number]
                   ELSE [c2 EXCEPT !.first_payment_account_number = account_number]
         IN IF ~Truthy(custom_id_code) THEN c3
            ELSE IF second
            THEN [c3 EXCEPT !.second_payment_custom_id_code = custom_id_code]
            ELSE [c3 EXCEPT !.first_payment_custom_id_code = custom_id_code]
    ELSE clearance

(* Lines 513-531: the payment fields the arguments overwrite. *)
set_payment_fields(clearance, payment_type, amount, branch, account_number, custom_id_code) ==
    IF payment_type = "first"
    THEN LET c1 == IF Truthy(amount)
                   THEN [clearance EXCEPT !.amount = flt(amount)] ELSE clearance
             c2 == IF Truthy(branch)
                   THEN [c1 EXCEPT !.first_payment_branch = branch] ELSE c1
             c3 == IF Truthy(account_number)
                   THEN [c2 EXCEPT !.first_payment_account_number = account_number]
                   ELSE c2
         IN IF Truthy(custom_id_code)
            THEN [c3 EXCEPT !.first_payment_custom_id_code = custom_id_code]
            ELSE c3
    ELSE IF payment_type = "second"
    THEN LET c1 == IF Truthy(amount)
                   THEN [clearance EXCEPT !.additional_payment_amount = flt(amount)]
                   ELSE clearance
             c2 == IF Truthy(branch)
                   THEN [c1 EXCEPT !.second_payment_branch = branch] ELSE c1
             c3 == IF Truthy(account_number)
                   THEN [c2 EXCEPT !.second_payment_account_number = account_number]
                   ELSE c2
         IN IF Truthy(custom_id_code)
            THEN [c3 EXCEPT !.second_payment_custom_id_code = custom_id_code]
            ELSE c3
    ELSE clearance

(* Variant of the try block that lets its exception reach the caller. *)
notification_error_Propagates(raised) == IF raised THEN "Exception" ELSE "ok"

(* Lines 538 and 576-578: whatever the try block raised is logged and the  *)
(* call goes on to its return.                                             *)
notification_error(raised) == "ok"

(* Line 562: the label of the Notification Log. *)
notification_payment_label(payment_type) ==
    IF payment_type = "first" THEN "First Payment" ELSE "Additional Payment"

(* raised: an exception inside the try block, from the lookups or from the *)
(* insert of the Notification Log.                                         *)
save_payment_info(user, clearance_name, payment_type, amount, branch, account_number, custom_id_code, raised) ==
    LET op == "save_payment_info" IN
    IF user = "Guest" THEN Throw(op, user, "PermissionError")
    ELSE IF clearance_name \notin DOMAIN db THEN Throw(op, user, "DoesNotExistError")
    ELSE IF ~is_staff(user) THEN Throw(op, user, "PermissionError")
    ELSE IF payment_type \notin {"first", "second"}
         THEN Throw(op, user, "ValidationError")
    ELSE
      LET clearance == set_payment_fields(db[clearance_name], payment_type, amount,
                                          branch, account_number, custom_id_code)
          saved == save(clearance, clearance_name)
      IN
      IF saved.thrown THEN Throw(op, user, "ValidationError")
      ELSE /\ db' = [db EXCEPT ![clearance_name] = saved.doc]
           /\ \E customer_user \in customer_users(saved.doc.customer) :
                 IF Truthy(customer_user) /\ ~raised
                 THEN /\ Len(notifications) < MaxNotifications
                      /\ notifications' = Append(notifications,
                            [for_user      |-> customer_user,
                             document_name |-> clearance_name,
                             payment_label |-> notification_payment_label(payment_type)])
                 ELSE UNCHANGED notifications
           /\ ret' = [op |-> op, user |-> user, err |-> notification_error(raised)]
           /\ UNCHANGED <<today, invoices, comments, todos, out, calls>>

-----------------------------------------------------------------------------
(* Comments *)

MaxComments == 2

Contents == {"hello"}

(* frappe.format_value(x, {"fieldtype": "Currency"}). *)
format_currency(x) == IF x = "50" THEN "50.00" ELSE "0.00"

(* Lines 374-377: the content, with the payment clause when an amount is   *)
(* given; the parts of the string, in order.                               *)
comment_content(content, payment_amount) ==
    IF Truthy(payment_amount)
    THEN <<content, "Additional Payment Required: ", format_currency(payment_amount)>>
    ELSE <<content>>

(* Variant of the check that lets a user without a customer through. *)
comment_permitted_Unlinked(user, clearance) ==
    \/ user = "Administrator"
    \/ LET customer == linked_customer(user) IN
       ~(Truthy(customer) /\ clearance.customer # customer)

(* Lines 351-372. *)
comment_permitted(user, clearance) ==
    \/ user = "Administrator"
    \/ LET customer == linked_customer(user) IN
       ~(~Truthy(customer) \/ clearance.customer # customer)

(* Variant of the insert that does not repeat a comment already there. *)
insert_comment_Once(table, user, clearance_name, content, published) ==
    IF \E i \in DOMAIN table :
          /\ table[i].owner = user
          /\ table[i].reference_name = clearance_name
          /\ table[i].content = content
    THEN table
    ELSE Append(table,
           [reference_name |-> clearance_name, comment_type |-> "Comment",
            content |-> content, comment_email |-> user, owner |-> user,
            published |-> published, creation |-> Len(table) + 1])

(* Lines 380-391: the Comment table after comment.insert; owner is the     *)
(* session user and creation the time of the insert.                       *)
insert_comment(table, user, clearance_name, content, published) ==
    Append(table,
           [reference_name |-> clearance_name, comment_type |-> "Comment",
            content |-> content, comment_email |-> user, owner |-> user,
            published |-> published, creation |-> Len(table) + 1])

(* Variant that settles what it can of the permission before it loads    *)
(* the clearance.                                                          *)
add_comment_PermissionFirst(user, clearance_name, content, payment_amount) ==
    LET op == "add_comment" IN
    IF user = "Guest" THEN Throw(op, user, "PermissionError")
    ELSE IF user # "Administrator" /\ ~Truthy(linked_customer(user))
         THEN Throw(op, user, "PermissionError")
    ELSE IF clearance_name \notin DOMAIN db THEN Throw(op, user, "DoesNotExistError")
    ELSE IF ~comment_permitted(user, db[clearance_name])
         THEN Throw(op, user, "PermissionError")
    ELSE /\ Len(comments) < MaxComments
         /\ comments' = insert_comment(comments, user, clearance_name,
                                       comment_content(content, payment_amount), 1)
         /\ Return(op, user)
         /\ UNCHANGED <<db, today, invoices, todos, notifications, out>>

add_comment(user, clearance_name, content, payment_amount) ==
    LET op == "add_comment" IN
    IF user = "Guest" THEN Throw(op, user, "PermissionError")
    ELSE IF clearance_name \notin DOMAIN db THEN Throw(op, user, "DoesNotExistError")
    ELSE IF ~comment_permitted(user, db[clearance_name])
         THEN Throw(op, user, "PermissionError")
    ELSE /\ Len(comments) < MaxComments
         /\ comments' = insert_comment(comments, user, clearance_name,
                                       comment_content(content, payment_amount), 1)
         /\ Return(op, user)
         /\ UNCHANGED <<db, today, invoices, todos, notifications, out>>

(* A comment written on the desk timeline of the clearance: a Comment row  *)
(* that is not published.                                                  *)
desk_comment(user, clearance_name, content) ==
    /\ clearance_name \in DOMAIN db
    /\ Len(comments) < MaxComments
    /\ comments' = insert_comment(comments, user, clearance_name, <<content>>, 0)
    /\ Return("desk_comment", user)
    /\ UNCHANGED <<db, today, invoices, todos, notifications, out>>

(* Lines 398-429. *)
view_permitted(user, clearance) ==
    \/ user = "Administrator"
    \/ LET customer == linked_customer(user) IN
       ~(~Truthy(customer) \/ clearance.customer # customer)

(* Variant of the filters that also selects unpublished comments. *)
comment_selected_Unpublished(comment, clearance_name) ==
    /\ comment.reference_name = clearance_name
    /\ comment.comment_type = "Comment"

(* Lines 431-441, the filters of get_all. *)
comment_selected(comment, clearance_name) ==
    /\ comment.reference_name = clearance_name
    /\ comment.comment_type = "Comment"
    /\ comment.published = 1

(* order_by="creation asc": insertion of the rows one by one into a list   *)
(* kept in ascending order of creation.                                    *)
RECURSIVE InsertByCreation(_, _)
InsertByCreation(sorted, c) ==
    IF sorted = <<>> THEN <<c>>
    ELSE IF c.creation < Head(sorted).creation THEN <<c>> \o sorted
    ELSE <<Head(sorted)>> \o InsertByCreation(Tail(sorted), c)

RECURSIVE SortByCreation(_)
SortByCreation(rows) ==
    IF rows = <<>> THEN <<>>
    ELSE InsertByCreation(SortByCreation(Tail(rows)), Head(rows))

(* Lines 457-481: the is_customer flag of one comment. *)
comment_is_customer(comment, clearance) ==
    /\ comment.owner # "Administrator"
    /\ LET customer == linked_customer(comment.owner) IN
       Truthy(customer) /\ clearance.customer = customer

(* Lines 431-483: the list get_comments returns. *)
comment_list(table, clearance_name, clearance) ==
    LET selected == SortByCreation(
                      SelectSeq(table, LAMBDA c : comment_selected(c, clearance_name)))
    IN [i \in DOMAIN selected |->
          [content       |-> selected[i].content,
           comment_email |-> selected[i].comment_email,
           creation      |-> selected[i].creation,
           owner         |-> selected[i].owner,
           is_customer   |-> comment_is_customer(selected[i], clearance)]]

get_comments(user, clearance_name) ==
    LET op == "get_comments" IN
    IF user = "Guest" THEN Throw(op, user, "PermissionError")
    ELSE IF clearance_name \notin DOMAIN db THEN Throw(op, user, "DoesNotExistError")
    ELSE IF ~view_permitted(user, db[clearance_name])
         THEN Throw(op, user, "PermissionError")
    ELSE /\ out' = comment_list(comments, clearance_name, db[clearance_name])
         /\ Return(op, user)
         /\ UNCHANGED <<db, today, invoices, comments, todos, notifications>>

-----------------------------------------------------------------------------
(* update_payment_receipt *)

(* Lines 706-728. *)
receipt_permitted(user, clearance) ==
    \/ user = "Administrator"
    \/ LET customer == linked_customer(user) IN
       ~(~Truthy(customer) \/ clearance.customer # customer)

update_payment_receipt(user, clearance_name, payment_row_name, file_url) ==
    LET op == "update_payment_receipt" IN
    IF user = "Guest" THEN Throw(op, user, "PermissionError")
    ELSE IF clearance_name \notin DOMAIN db THEN Throw(op, user, "DoesNotExistError")
    ELSE
      LET clearance == db[clearance_name] IN
      IF ~receipt_permitted(user, clearance) THEN Throw(op, user, "PermissionError")
      ELSE
        LET i == FindRow(clearance.payments, payment_row_name, 1) IN
        IF i = 0 THEN Throw(op, user, "ValidationError")
        ELSE
          LET saved == save([clearance EXCEPT !.payments[i].attachment = file_url],
                            clearance_name)
          IN
          IF saved.thrown THEN Throw(op, user, "ValidationError")
          ELSE /\ db' = [db EXCEPT ![clearance_name] = saved.doc]
               /\ Return(op, user)
               /\ UNCHANGED <<today, invoices, side>>

-----------------------------------------------------------------------------
(* Initial state: one persisted clearance of Customer A, created from a    *)
(* template; CC-0404 is a name no document has.                            *)

NewRow(name, required) ==
    [name |-> name, is_required |-> required, status |-> "In Review",
     reason |-> None, attachment |-> None]

NewClearance(rows) ==
    [customer |-> "Customer A", status |-> "Document Submitting",
     required_documents |-> rows,
     sales_invoice |-> None, payment_status |-> "Pending", payment_date |-> None,
     risk_status_comment |-> None, additional_payment_amount |-> None,
     amount |-> None,
     first_payment_branch |-> None, first_payment_account_number |-> None,
     first_payment_custom_id_code |-> None,
     second_payment_branch |-> None, second_payment_account_number |-> None,
     second_payment_custom_id_code |-> None,
     payments |-> <<>>]

(* A new Custom Clearance is inserted with the status and the checklist    *)
(* its author gave it.                                                     *)
insert(user, name, status, rows) ==
    LET op == "insert"
        doc == [NewClearance(rows) EXCEPT !.status = status]
        saved == before_insert(doc)
    IN
    /\ name \notin DOMAIN db
    /\ IF saved.thrown THEN Throw(op, user, "ValidationError")
       ELSE /\ db' = [n \in DOMAIN db \cup {name} |->
                        IF n = name THEN saved.doc ELSE db[n]]
            /\ Return(op, user)
            /\ UNCHANGED <<today, invoices, side>>

InitFrom(templates) ==
    /\ \E rows \in templates : db = [n \in {"CC-0001"} |-> NewClearance(rows)]
    /\ today = 1
    /\ invoices = 0
    /\ comments = <<>>
    /\ todos = <<>>
    /\ notifications = <<>>
    /\ out = <<>>
    /\ ret = [op |-> "none", user |-> None, err |-> "ok"]
    /\ calls = NoCalls

(* The document workflow on a clearance with at most one checklist row,    *)
(* called by every kind of caller.                                         *)
ShortTemplates ==
    { <<>>, <<NewRow("row1", TRUE)>>, <<NewRow("row1", FALSE)>> }

Known == {"CC-0001"}

Init == InitFrom(ShortTemplates)

Next ==
    \/ \E u \in Users, n \in Known, s \in Statuses :
          update_clearance_status(u, n, s, None, None)
    \/ \E u \in Users, n \in Known, r \in RowNames,
          s \in RowStatuses, why \in Reasons :
          update_document_status(u, n, r, s, why)
    \/ \E u \in Users, n \in Known, r \in RowNames,
          f \in FileUrls, re \in BOOLEAN :
          update_document_attachment(u, n, r, f, re)

Spec == Init /\ [][Next]_vars

(* The document workflow on a clearance with two checklist rows, driven by *)
(* the callers the row updates accept.                                     *)
LongTemplates ==
    { <<NewRow("row1", TRUE), NewRow("row2", FALSE)>>,
      <<NewRow("row1", TRUE), NewRow("row2", TRUE)>> }

Reviewers == {"Administrator", "alice@a"}

StaffCallers == {"Administrator", "staff@cc"}

InitRows == InitFrom(LongTemplates)

NextRows ==
    \/ \E n \in Known, s \in Statuses :
          update_clearance_status("Administrator", n, s, None, None)
    \/ \E u \in Reviewers, n \in Known, r \in {"row1", "row2"},
          s \in RowStatuses, why \in Reasons :
          update_document_status(u, n, r, s, why)
    \/ \E u \in Reviewers, n \in Known, r \in {"row1", "row2"},
          f \in FileUrls, re \in BOOLEAN :
          update_document_attachment(u, n, r, f, re)

SpecRows == InitRows /\ [][NextRows]_vars

(* The payment mirror: invoice creation, the Sales Invoice events, the     *)
(* passing of days, and the status changes staff make meanwhile.           *)
Inserted == {InvoiceNames[k] : k \in 1..invoices}

InitPay == InitFrom({ <<NewRow("row1", TRUE)>> })

NextPay ==
    \/ \E u \in Reviewers, n \in Known : create_sales_invoice(u, n)
    \/ \E i \in Inserted, st \in InvoiceStatuses :
          update_clearance_payment_status(i, st)
    \/ \E i \in Inserted : handle_sales_invoice_cancel(i)
    \/ NextDay
    \/ \E u \in Reviewers, n \in Known, s \in Statuses :
          update_clearance_status(u, n, s, None, None)

SpecPay == InitPay /\ [][NextPay]_vars

(* The payment notifications staff send, on a clearance of any customer.   *)
InitOf(docs) ==
    /\ \E doc \in docs : db = [n \in {"CC-0001"} |-> doc]
    /\ today = 1
    /\ invoices = 0
    /\ comments = <<>>
    /\ todos = <<>>
    /\ notifications = <<>>
    /\ out = <<>>
    /\ ret = [op |-> "none", user |-> None, err |-> "ok"]
    /\ calls = NoCalls

OfCustomers(doc, customers) == {[doc EXCEPT !.customer = c] : c \in customers}

PaymentCallers == {"Guest", "Administrator", "staff@cc", "clerk@cc", "alice@a"}

InitNotify == InitOf(OfCustomers(NewClearance(<<NewRow("row1", TRUE)>>), Customers))

NextNotify ==
    \/ \E u \in PaymentCallers, n \in ClearanceNames,
          t \in {"first", "First Payment"} :
          send_payment_notification(u, n, t)
    \/ \E u \in StaffCallers, n \in Known, s \in {"In Review", "Risk Analysis"} :
          update_clearance_status(u, n, s, None, None)

SpecNotify == InitNotify /\ [][NextNotify]_vars

(* The payment details staff record on a clearance whose customer has no   *)
(* user, or has one behind the second of two contacts.                     *)
PaymentTypes == {"first", "second", "third"}

Amounts == {None, "50", "abc"}

Branches == {None, "Main"}

AccountNumbers == {"ACC-1"}

IdCodes == {"ID-7"}

InitPayInfo ==
    InitOf(OfCustomers(NewClearance(<<NewRow("row1", TRUE)>>),
                       {"Customer C", "Customer D"}))

NextPayInfo ==
    \E u \in PaymentCallers, n \in Known, t \in PaymentTypes, a \in {None, "50"},
       b \in Branches, acc \in AccountNumbers, code \in IdCodes, raised \in BOOLEAN :
       save_payment_info(u, n, t, a, b, acc, code, raised)

SpecPayInfo == InitPayInfo /\ [][NextPayInfo]_vars

(* The status changes with a comment and an additional payment amount. *)
StatusComments == {None, "needs inspection"}

InitGuard == InitFrom({ <<NewRow("row1", TRUE)>> })

NextGuard ==
    \E u \in StaffCallers \cup {"alice@a"}, n \in ClearanceNames, s \in Statuses,
       c \in StatusComments, a \in Amounts :
       update_clearance_status(u, n, s, c, a)

SpecGuard == InitGuard /\ [][NextGuard]_vars

(* The creation of a second clearance, in any status, and the status       *)
(* changes that follow.                                                    *)
AcceptedRow(name, required) == [NewRow(name, required) EXCEPT !.status = "Accepted"]

NewTemplates == ShortTemplates \cup { <<AcceptedRow("row1", TRUE)>> }

InitCreate == InitFrom({ <<NewRow("row1", TRUE)>> })

NextCreate ==
    \/ \E u \in StaffCallers, s \in Statuses, rows \in NewTemplates :
          insert(u, "CC-0002", s, rows)
    \/ \E u \in StaffCallers, n \in DOMAIN db, s \in Statuses :
          update_clearance_status(u, n, s, None, None)

SpecCreate == InitCreate /\ [][NextCreate]_vars

(* The comment thread of two clearances, one of Customer A and one of      *)
(* Customer B, with the timeline comments staff write on the desk.         *)
Both == {"CC-0001", "CC-0002"}

InitComments ==
    /\ db = [n \in Both |->
               [NewClearance(<<NewRow("row1", TRUE)>>) EXCEPT
                  !.customer = IF n = "CC-0001" THEN "Customer A" ELSE "Customer B"]]
    /\ today = 1
    /\ invoices = 0
    /\ comments = <<>>
    /\ todos = <<>>
    /\ notifications = <<>>
    /\ out = <<>>
    /\ ret = [op |-> "none", user |-> None, err |-> "ok"]
    /\ calls = NoCalls

Commenters == {"Administrator", "alice@a", "bob@b"}

NextComments ==
    \/ \E u \in Commenters, n \in Both, c \in Contents, a \in {None, "50"} :
          add_comment(u, n, c, a)
    \/ \E n \in Both, c \in Contents : desk_comment("staff@cc", n, c)
    \/ \E u \in Commenters, n \in Both : get_comments(u, n)

SpecComments == InitComments /\ [][NextComments]_vars

(* The portal of a clearance of Customer A that has one payment row: the   *)
(* entry points open to the customer, called by every kind of caller.      *)
NewPayment(name) == [name |-> name, attachment |-> None]

PaymentNames == {"pay1", "pay9"}

InitPortal ==
    InitOf({[NewClearance(<<NewRow("row1", TRUE)>>) EXCEPT
               !.payments = <<NewPayment("pay1")>>]})

NextPortal ==
    \/ \E u \in Users, n \in Known, r \in {"row1", "row9"},
          f \in FileUrls, re \in BOOLEAN :
          update_document_attachment(u, n, r, f, re)
    \/ \E u \in Users, n \in Known, c \in Contents, a \in {None, "50"} :
          add_comment(u, n, c, a)
    \/ \E u \in Users, n \in Known : get_comments(u, n)
    \/ \E u \in Users, n \in Known, r \in PaymentNames, f \in FileUrls :
          update_payment_receipt(u, n, r, f)

SpecPortal == InitPortal /\ [][NextPortal]_vars

(* Every entry point, called without a session and by Administrator, on a  *)
(* clearance of Customer D and on a name no clearance has.                 *)
Sessions == {"Guest", "Administrator"}

InitEntry ==
    InitOf({[NewClearance(<<NewRow("row1", TRUE)>>) EXCEPT
               !.customer = "Customer D",
               !.payments = <<NewPayment("pay1")>>]})

NextEntry ==
    \/ \E u \in Sessions, n \in ClearanceNames : create_sales_invoice(u, n)
    \/ \E u \in Sessions, n \in ClearanceNames, f \in FileUrls :
          update_document_attachment(u, n, "row1", f, FALSE)
    \/ \E u \in Sessions, n \in ClearanceNames :
          update_document_status(u, n, "row1", "Accepted", None)
    \/ \E u \in Sessions, n \in ClearanceNames :
          update_clearance_status(u, n, "In Review", None, None)
    \/ \E u \in Sessions, n \in ClearanceNames, c \in Contents :
          add_comment(u, n, c, None)
    \/ \E u \in Sessions, n \in ClearanceNames : get_comments(u, n)
    \/ \E u \in Sessions, n \in ClearanceNames, raised \in BOOLEAN :
          save_payment_info(u, n, "first", "50", None, None, None, raised)
    \/ \E u \in Sessions, n \in ClearanceNames :
          send_payment_notification(u, n, "first")
    \/ \E u \in Sessions, n \in ClearanceNames, f \in FileUrls :
          update_payment_receipt(u, n, "pay1", f)

SpecEntry == InitEntry /\ [][NextEntry]_vars

(* The life of the invoice as the installed application sees it: the       *)
(* Sales Invoice events reach the handlers through the registered hooks    *)
(* only.                                                                   *)
InitHooks == InitFrom({ <<NewRow("row1", TRUE)>> })

NextHooks ==
    \/ \E u \in Reviewers, n \in Known : create_sales_invoice(u, n)
    \/ \E i \in Inserted, st \in InvoiceStatuses : sales_invoice_on_update(i, st)
    \/ \E i \in Inserted : sales_invoice_on_cancel(i)
    \/ NextDay
    \/ \E u \in Reviewers, n \in Known, s \in Statuses :
          update_clearance_status(u, n, s, None, None)

SpecHooks == InitHooks /\ [][NextHooks]_vars

(* The entry points that check the caller against the clearance's          *)
(* customer, called with the name of a clearance and with a name no        *)
(* clearance has, by callers of every kind.                                *)
InitOrder ==
    InitOf({[NewClearance(<<NewRow("row1", TRUE)>>) EXCEPT
               !.payments = <<NewPayment("pay1")>>]})

OrderCallers == {"Guest", "Administrator", "staff@cc", "bob@b"}

NextOrder ==
    \/ \E u \in OrderCallers, n \in ClearanceNames, f \in FileUrls, re \in BOOLEAN :
          update_document_attachment(u, n, "row1", f, re)
    \/ \E u \in OrderCallers, n \in ClearanceNames, s \in RowStatuses :
          update_document_status(u, n, "row1", s, None)
    \/ \E u \in OrderCallers, n \in ClearanceNames, c \in Contents :
          add_comment(u, n, c, None)
    \/ \E u \in OrderCallers, n \in ClearanceNames : get_comments(u, n)
    \/ \E u \in OrderCallers, n \in ClearanceNames, f \in FileUrls :
          update_payment_receipt(u, n, "pay1", f)

SpecOrder == InitOrder /\ [][NextOrder]_vars

(* A clearance of Customer B and the entry points that look up the         *)
(* caller's customer, called by the users of Customer A, of Customer B and *)
(* by the user who has a contact of Customer A and a portal row of         *)
(* Customer B.                                                             *)
InitLink ==
    InitOf({[NewClearance(<<NewRow("row1", TRUE)>>) EXCEPT
               !.customer = "Customer B",
               !.payments = <<NewPayment("pay1")>>]})

LinkCallers == {"alice@a", "bob@b", "carol@ab"}

NextLink ==
    \/ \E u \in LinkCallers, n \in Known, f \in FileUrls, re \in BOOLEAN :
          update_document_attachment(u, n, "row1", f, re)
    \/ \E u \in LinkCallers, n \in Known, s \in RowStatuses :
          update_document_status(u, n, "row1", s, None)
    \/ \E u \in LinkCallers, n \in Known, s \in Statuses :
          update_clearance_status(u, n, s, None, None)
    \/ \E u \in LinkCallers, n \in Known, c \in Contents :
          add_comment(u, n, c, None)
    \/ \E u \in LinkCallers, n \in Known : get_comments(u, n)
    \/ \E u \in LinkCallers, n \in Known, f \in FileUrls :
          update_payment_receipt(u, n, "pay1", f)

SpecLink == InitLink /\ [][NextLink]_vars

(* Two clearances, each of which may get its own invoice, and the Sales    *)
(* Invoice events on them.                                                 *)
InitMirror ==
    /\ db = [n \in Both |-> NewClearance(<<NewRow("row1", TRUE)>>)]
    /\ today = 1
    /\ invoices = 0
    /\ comments = <<>>
    /\ todos = <<>>
    /\ notifications = <<>>
    /\ out = <<>>
    /\ ret = [op |-> "none", user |-> None, err |-> "ok"]
    /\ calls = NoCalls

NextMirror ==
    \/ \E n \in Both : create_sales_invoice("Administrator", n)
    \/ \E i \in Inserted, st \in InvoiceStatuses :
          update_clearance_payment_status(i, st)
    \/ \E i \in Inserted : handle_sales_invoice_cancel(i)
    \/ NextDay
    \/ \E n \in Both : update_clearance_status("Administrator", n, "Green", None, None)

SpecMirror == InitMirror /\ [][NextMirror]_vars

(* Two requests at a time that create the invoice of a clearance, on two   *)
(* clearances.                                                             *)
InitRace == InitMirror

RaceCallers == {"Guest", "Administrator", "staff@cc"}

NextRace ==
    \/ \E w \in Workers, u \in RaceCallers, n \in Both :
          create_sales_invoice_read(w, u, n)
    \/ \E w \in Workers : create_sales_invoice_insert(w)
    \/ \E w \in Workers : create_sales_invoice_db_set(w)

SpecRace == InitRace /\ [][NextRace]_vars

(* The three entry points kept for staff, on a clearance of Customer A,    *)
(* called by staff, by the customer's user and by another customer's user. *)
InitStaff == InitFrom({ <<NewRow("row1", TRUE)>> })

StaffOpCallers == {"Administrator", "staff@cc", "clerk@cc", "alice@a", "bob@b"}

NextStaff ==
    \/ \E u \in StaffOpCallers, n \in Known, s \in {"In Review", "Cleared"} :
          update_clearance_status(u, n, s, None, None)
    \/ \E u \in StaffOpCallers, n \in Known, t \in {"first", "second"}, a \in {None, "50"} :
          save_payment_info(u, n, t, a, None, None, None, FALSE)
    \/ \E u \in StaffOpCallers, n \in Known, t \in {"first", "second"} :
          send_payment_notification(u, n, t)

SpecStaff == InitStaff /\ [][NextStaff]_vars

(* What the customer's user can do alone on the customer's clearance: no   *)
(* call is made by Administrator or by staff.                              *)
InitCustomer == InitFrom({ <<NewRow("row1", TRUE), NewRow("row2", FALSE)>> })

NextCustomer ==
    \/ \E n \in Known, r \in {"row1", "row2"}, f \in FileUrls, re \in BOOLEAN :
          update_document_attachment("alice@a", n, r, f, re)
    \/ \E n \in Known, r \in {"row1", "row2"}, s \in RowStatuses, why \in Reasons :
          update_document_status("alice@a", n, r, s, why)
    \/ \E n \in Known, c \in Contents : add_comment("alice@a", n, c, None)
    \/ \E n \in Known : get_comments("alice@a", n)

SpecCustomer == InitCustomer /\ [][NextCustomer]_vars

(* Every entry point that ends in a save, called by Administrator on a     *)
(* clearance with a mandatory row, an optional row and a payment row.      *)
InitSaves ==
    InitOf({[NewClearance(<<NewRow("row1", TRUE), NewRow("row2", FALSE)>>) EXCEPT
               !.payments = <<NewPayment("pay1")>>]})

NextSaves ==
    \/ \E n \in Known, r \in {"row1", "row2"}, s \in RowStatuses :
          update_document_status("Administrator", n, r, s, None)
    \/ \E n \in Known, r \in {"row1", "row2"}, f \in FileUrls, re \in BOOLEAN :
          update_document_attachment("Administrator", n, r, f, re)
    \/ \E n \in Known, s \in Statuses :
          update_clearance_status("Administrator", n, s, None, None)
    \/ \E n \in Known, t \in {"first", "second"} :
          save_payment_info("Administrator", n, t, "50", None, None, None, FALSE)
    \/ \E n \in Known, f \in FileUrls :
          update_payment_receipt("Administrator", n, "pay1", f)

SpecSaves == InitSaves /\ [][NextSaves]_vars

(* The life of a persisted clearance: the guarded saves, the writes that   *)
(* bypass the guard and the Sales Invoice events.                          *)
InitLife ==
    InitOf({[NewClearance(<<NewRow("row1", TRUE)>>) EXCEPT
               !.payments = <<NewPayment("pay1")>>]})

NextLife ==
    \/ \E n \in Known, s \in RowStatuses :
          update_document_status("Administrator", n, "row1", s, None)
    \/ \E n \in Known, f \in FileUrls :
          update_document_attachment("Administrator", n, "row1", f, TRUE)
    \/ \E n \in Known, s \in Statuses :
          update_clearance_status("Administrator", n, s, None, None)
    \/ \E n \in Known :
          save_payment_info("Administrator", n, "first", "50", None, None, None, FALSE)
    \/ \E n \in Known, f \in FileUrls :
          update_payment_receipt("Administrator", n, "pay1", f)
    \/ \E n \in Known : create_sales_invoice("Administrator", n)
    \/ \E i \in Inserted, st \in {"Paid", "Unpaid"} :
          update_clearance_payment_status(i, st)
    \/ \E i \in Inserted : handle_sales_invoice_cancel(i)

SpecLife == InitLife /\ [][NextLife]_vars

-----------------------------------------------------------------------------
(* Properties *)

Rows(doc) == doc.required_documents

HasMandatory(doc) == \E i \in DOMAIN Rows(doc) : Rows(doc)[i].is_required

MandatoryAccepted(doc) ==
    \A i \in DOMAIN Rows(doc) :
        Rows(doc)[i].is_required => Rows(doc)[i].status = "Accepted"

RowOps == {"update_document_status", "update_document_attachment"}

SaveOps == RowOps \cup {"update_clearance_status"}

Succeeded(op) == ret.op = op /\ ret.err = "ok"

(* C1: on a clearance with a mandatory row, a save made while the status   *)
(* is Document Submitting persists In Review when every mandatory row is   *)
(* Accepted, and leaves Document Submitting when some mandatory row is     *)
(* not; this for the row updates (which save the persisted status) and for *)
(* update_clearance_status called with Document Submitting.                *)
C1_PromotedStatus(doc) ==
    IF MandatoryAccepted(doc) THEN "In Review" ELSE "Document Submitting"

C2_RiskAnalysisOnlyFromInReview ==
    [][\A n \in Known :
        /\ ( /\ ret'.op \in SaveOps
             /\ ret'.err = "ok"
             /\ db'[n].status = "Risk Analysis" )
           => db[n].status \in {"In Review", "Risk Analysis"}
        /\ ( /\ ret'.op = "update_clearance_status"
             /\ ret'.err # "PermissionError"
             /\ db[n].status \notin {"In Review", "Risk Analysis"}
             /\ update_clearance_status(ret'.user, n, "Risk Analysis", None, None) )
           => (ret'.err = "ValidationError" /\ db' = db)
      ]_vars

C2_Witness ==
    /\ Succeeded("update_clearance_status")
    /\ ret.user = "staff@cc"
    /\ db["CC-0001"].status = "Risk Analysis"

(* C3: a save that persists Cleared started from a persisted status of     *)
(* Risk Analysis or Cleared, and update_clearance_status to Cleared from   *)
(* any other persisted status, In Review included, is rejected with a      *)
(* validation error and writes nothing.                                    *)
C3_ClearedOnlyFromRiskAnalysis ==
    [][\A n \in Known :
        /\ ( /\ ret'.op \in SaveOps
             /\ ret'.err = "ok"
             /\ db'[n].status = "Cleared" )
           => db[n].status \in {"Risk Analysis", "Cleared"}
        /\ ( /\ ret'.op = "update_clearance_status"
             /\ ret'.err # "PermissionError"
             /\ db[n].status \notin {"Risk Analysis", "Cleared"}
             /\ update_clearance_status(ret'.user, n, "Cleared", None, None) )
           => (ret'.err = "ValidationError" /\ db' = db)
      ]_vars

C3_Witness ==
    /\ Succeeded("update_clearance_status")
    /\ db["CC-0001"].status = "Cleared"

(* C4: update_clearance_status by staff or the administrator with the      *)
(* status the clearance already has, Risk Analysis or Cleared, succeeds    *)
(* and leaves the clearance as it was, every time it is called.            *)
C4_SelfTransitionIdempotent ==
    [][\A n \in Known, s \in {"Risk Analysis", "Cleared"} :
        ( /\ ret'.op = "update_clearance_status"
          /\ ret'.user \in StaffCallers
          /\ db[n].status = s
          /\ update_clearance_status(ret'.user, n, s, None, None) )
        => (ret'.err = "ok" /\ db' = db)
      ]_vars

C4_Witness ==
    /\ Succeeded("update_clearance_status")
    /\ ret.user \in StaffCallers
    /\ db["CC-0001"].status = "Cleared"
    /\ db["CC-0001"].required_documents = <<>>

(* C5: update_clearance_status called by a customer, a caller with a       *)
(* linked customer, fails with PermissionError and changes nothing, for    *)
(* every clearance and every target status.                                *)
CustomerCallers == {u \in Users : Truthy(linked_customer(u))}

C5_CustomersNeverChangeStatus ==
    [][(ret'.op = "update_clearance_status" /\ ret'.user \in CustomerCallers)
        => (ret'.err = "PermissionError" /\ db' = db)
      ]_vars

(* C6: update_document_status is refused with PermissionError exactly for  *)
(* the anonymous caller and for a customer linked to another customer; the *)
(* administrator, staff with no customer link, and the clearance's own     *)
(* customer pass the permission check.                                     *)
C6_Authorized(u, n) ==
    \/ u = "Administrator"
    \/ (u # "Guest" /\ ~Truthy(linked_customer(u)))
    \/ linked_customer(u) = db[n].customer

C6_StatusUpdateCallers ==
    \A n \in Known :
        ret.op = "update_document_status"
        => (ret.err = "PermissionError" <=> ~C6_Authorized(ret.user, n))

C8_RowAfter(row, file_url, is_reupload) ==
    [name        |-> row.name,
     is_required |-> row.is_required,
     attachment  |-> file_url,
     status      |-> IF is_reupload /\ row.status = "Declined"
                     THEN "In Review" ELSE row.status,
     reason      |-> IF is_reupload /\ row.status = "Declined"
                     THEN None ELSE row.reason]

C8_AttachmentUpdate ==
    [][\A n \in Known :
        (ret'.op = "update_document_attachment" /\ ret'.err = "ok")
        => \A f \in FileUrls, re \in BOOLEAN, i \in DOMAIN Rows(db[n]) :
             update_document_attachment(ret'.user, n, Rows(db[n])[i].name, f, re)
             => Rows(db'[n])[i] = C8_RowAfter(Rows(db[n])[i], f, re)
      ]_vars

C8_Witness ==
    /\ Succeeded("update_document_attachment")
    /\ \E i \in DOMAIN Rows(db["CC-0001"]) :
         /\ Rows(db["CC-0001"])[i].status = "Declined"
         /\ Rows(db["CC-0001"])[i].reason = "blurred scan"
         /\ Rows(db["CC-0001"])[i].attachment \in FileUrls

(* C9: on a status change of the linked invoice, payment_status is Paid    *)
(* for Paid, Partially Paid for the two partly-paid statuses and Pending   *)
(* for every other status, and payment_date becomes the current date when  *)
(* the status is Paid and is left alone otherwise.                         *)
C9_PaymentStatus(invoice_status) ==
    CASE invoice_status = "Paid" -> "Paid"
      [] invoice_status = "Partly Paid" -> "Partially Paid"
      [] invoice_status = "Partly Paid and Discounted" -> "Partially Paid"
      [] OTHER -> "Pending"

C9_PaymentMirror ==
    [][\A n \in Known :
        (ret'.op = "update_clearance_payment_status" /\ Truthy(db[n].sales_invoice))
        => \A st \in InvoiceStatuses :
             update_clearance_payment_status(db[n].sales_invoice, st)
             => /\ db'[n].payment_status = C9_PaymentStatus(st)
                /\ db'[n].payment_date =
                     IF st = "Paid" THEN Days[today] ELSE db[n].payment_date
      ]_vars

C9_Witness ==
    /\ Succeeded("update_clearance_payment_status")
    /\ db["CC-0001"].payment_status = "Partially Paid"
    /\ db["CC-0001"].payment_date = Days[1]
    /\ today = 2

(* C10: on cancellation of the linked invoice the invoice reference and    *)
(* the payment date are cleared, payment_status becomes Pending, and the   *)
(* status becomes Review from Green, Yellow or Red and is left alone       *)
(* otherwise.                                                              *)
C10_InvoiceCancelled ==
    [][\A n \in Known :
        ( /\ ret'.op = "handle_sales_invoice_cancel"
          /\ Truthy(db[n].sales_invoice)
          /\ handle_sales_invoice_cancel(db[n].sales_invoice) )
        => /\ db'[n].sales_invoice = None
           /\ db'[n].payment_status = "Pending"
           /\ db'[n].payment_date = None
           /\ db'[n].status =
                IF db[n].status \in {"Green", "Yellow", "Red"}
                THEN "Review" ELSE db[n].status
      ]_vars

C10_Witness ==
    /\ Succeeded("handle_sales_invoice_cancel")
    /\ invoices > 0
    /\ db["CC-0001"].sales_invoice = None
    /\ db["CC-0001"].status = "Review"
    /\ db["CC-0001"].payment_status = "Pending"

C12_Candidates(customer) ==
    ( PortalUsers(customer) \cup
      {UserByEmail(ContactEmail(c)) :
          c \in {k \in Contacts : ContactLink(k) = customer}} ) \ {None}

C12_OneTaskPerNotification ==
    [][\A n \in Known :
        ( /\ ret'.op = "send_payment_notification"
          /\ ret'.user \in {"Administrator", "staff@cc", "clerk@cc"}
          /\ \E t \in {"first", "First Payment"} :
                send_payment_notification(ret'.user, n, t) )
        => IF C12_Candidates(db[n].customer) = {}
           THEN ret'.err = "ValidationError" /\ todos' = todos
           ELSE /\ ret'.err = "ok"
                /\ Len(todos') = Len(todos) + 1
                /\ SubSeq(todos', 1, Len(todos)) = todos
                /\ todos'[Len(todos')].priority = "High"
                /\ todos'[Len(todos')].status = "Open"
                /\ todos'[Len(todos')].allocated_to \in C12_Candidates(db[n].customer)
      ]_vars

(* C13: save_payment_info by a staff caller with a valid payment type      *)
(* returns success and the payment fields it was given are persisted,      *)
(* whether or not the notification that follows the save could be made:    *)
(* a failure while resolving the customer user or inserting the            *)
(* Notification Log neither fails the call nor undoes the save.            *)
C13_Given(old, new) == IF Truthy(new) THEN new ELSE old

C13_Saved(old, t, a, b, acc, code) ==
    IF t = "first"
    THEN [old EXCEPT
            !.amount = IF Truthy(a) THEN flt(a) ELSE @,
            !.first_payment_branch = C13_Given(@, b),
            !.first_payment_account_number = C13_Given(@, acc),
            !.first_payment_custom_id_code = C13_Given(@, code)]
    ELSE [old EXCEPT
            !.additional_payment_amount = IF Truthy(a) THEN flt(a) ELSE @,
            !.second_payment_branch = C13_Given(@, b),
            !.second_payment_account_number = C13_Given(@, acc),
            !.second_payment_custom_id_code = C13_Given(@, code)]

C13_SaveSurvivesNotification ==
    [][\A n \in Known, t \in {"first", "second"}, a \in {None, "50"}, b \in Branches,
          acc \in AccountNumbers, code \in IdCodes, raised \in BOOLEAN :
        ( /\ ret'.op = "save_payment_info"
          /\ ret'.user \in {"Administrator", "staff@cc", "clerk@cc"}
          /\ save_payment_info(ret'.user, n, t, a, b, acc, code, raised) )
        => /\ ret'.err = "ok"
           /\ db'[n] = C13_Saved(db[n], t, a, b, acc, code)
           /\ raised => notifications' = notifications
      ]_vars

(* The call returned success with the amount saved although no             *)
(* notification was made for a customer who has a user.                    *)
C13_Witness ==
    /\ ret.op = "save_payment_info"
    /\ ret.err = "ok"
    /\ db["CC-0001"].customer = "Customer D"
    /\ db["CC-0001"].amount = "50"
    /\ notifications = <<>>

(* C14: an update_clearance_status call that the transition guard rejects  *)
(* persists nothing: the stored status, risk_status_comment and            *)
(* additional_payment_amount, and the rest of the document, are what they  *)
(* were before the call.                                                   *)
C14_RejectedCallPersistsNothing ==
    [][ ( /\ ret'.op = "update_clearance_status"
          /\ ret'.err = "ValidationError" )
        => \A n \in DOMAIN db :
              /\ db'[n].status = db[n].status
              /\ db'[n].risk_status_comment = db[n].risk_status_comment
              /\ db'[n].additional_payment_amount = db[n].additional_payment_amount
              /\ db'[n] = db[n]
      ]_vars

(* A call was rejected by the guard on a clearance that already carries a  *)
(* comment and an amount from an accepted call.                            *)
C14_Witness ==
    /\ ret.op = "update_clearance_status"
    /\ ret.err = "ValidationError"
    /\ db["CC-0001"].status = "Review"
    /\ db["CC-0001"].risk_status_comment = "needs inspection"
    /\ db["CC-0001"].additional_payment_amount = "0"

(* C15: the transition guard does not fire when a clearance is created: a  *)
(* new clearance is stored with whatever initial status it was given,      *)
(* Risk Analysis and Cleared included; only the auto-promotion may turn a  *)
(* new Document Submitting into In Review.                                 *)
C15_CreationIsNotGuarded ==
    [][\A s \in Statuses, rows \in NewTemplates :
        ( /\ ret'.op = "insert"
          /\ insert(ret'.user, "CC-0002", s, rows) )
        => /\ ret'.err = "ok"
           /\ "CC-0002" \in DOMAIN db'
           /\ db'["CC-0002"].status =
                 IF /\ s = "Document Submitting"
                    /\ \E i \in DOMAIN rows : rows[i].is_required
                    /\ \A i \in DOMAIN rows :
                          rows[i].is_required => rows[i].status = "Accepted"
                 THEN "In Review" ELSE s
      ]_vars

(* A clearance has just been created as Cleared. *)
C15_Witness ==
    /\ ret.op = "insert"
    /\ ret.err = "ok"
    /\ "CC-0002" \in DOMAIN db
    /\ db["CC-0002"].status = "Cleared"

(* C16: update_document_attachment, add_comment, get_comments and          *)
(* update_payment_receipt take the same authorization decision: the call   *)
(* is refused with a permission error unless the caller is Administrator   *)
(* or the caller's resolved customer is the clearance's customer; so a     *)
(* staff user without a customer link is refused, and a refused call       *)
(* changes nothing.                                                        *)
C16_PortalOps ==
    {"update_document_attachment", "add_comment", "get_comments",
     "update_payment_receipt"}

C16_Allowed(u, clearance) ==
    \/ u = "Administrator"
    \/ /\ linked_customer(u) # None
       /\ linked_customer(u) = clearance.customer

C17_OneCommentPerCall ==
    [][\A n \in Both, c \in Contents, a \in {None, "50"} :
        ( /\ ret'.op = "add_comment"
          /\ ret'.err = "ok"
          /\ add_comment(ret'.user, n, c, a) )
        => /\ Len(comments') = Len(comments) + 1
           /\ SubSeq(comments', 1, Len(comments)) = comments
           /\ comments'[Len(comments')].published = 1
           /\ comments'[Len(comments')].comment_email = ret'.user
           /\ comments'[Len(comments')].owner = ret'.user
           /\ comments'[Len(comments')].reference_name = n
           /\ comments'[Len(comments')].content[1] = c
      ]_vars

(* Two identical calls of the customer have left two comments. *)
C17_Witness ==
    /\ ret.op = "add_comment"
    /\ ret.err = "ok"
    /\ Len(comments) = 2
    /\ comments[1].owner = "alice@a"
    /\ comments[2].owner = "alice@a"
    /\ comments[1].content = comments[2].content
    /\ comments[1].published = 1

(* C18: get_comments returns the published comments of the clearance, and  *)
(* only those, in ascending order of creation, each flagged is_customer    *)
(* exactly when its author is not Administrator and the author's resolved  *)
(* customer is the clearance's customer.                                   *)
C18_Published(n) ==
    {i \in DOMAIN comments :
        comments[i].reference_name = n /\ comments[i].published = 1}

C18_ListOf(n, list) ==
    /\ Len(list) = Cardinality(C18_Published(n))
    /\ \A i \in C18_Published(n) :
          \E k \in DOMAIN list :
             /\ list[k].creation = comments[i].creation
             /\ list[k].content = comments[i].content
             /\ list[k].owner = comments[i].owner
    /\ \A k \in DOMAIN list, l \in DOMAIN list :
          k < l => list[k].creation < list[l].creation
    /\ \A k \in DOMAIN list :
          list[k].is_customer <=>
             /\ list[k].owner # "Administrator"
             /\ linked_customer(list[k].owner) # None
             /\ linked_customer(list[k].owner) = db[n].customer

C18_CommentList ==
    [][\A n \in Both :
        ( /\ ret'.op = "get_comments"
          /\ ret'.err = "ok"
          /\ get_comments(ret'.user, n) )
        => C18_ListOf(n, out')
      ]_vars

(* The list of the first clearance has been returned with a comment of     *)
(* Administrator before a later one of the customer.                       *)
C18_Witness ==
    /\ ret.op = "get_comments"
    /\ ret.err = "ok"
    /\ Len(out) = 2
    /\ out[1].owner = "Administrator" /\ ~out[1].is_customer
    /\ out[2].owner = "alice@a" /\ out[2].is_customer
    /\ out[1].creation < out[2].creation

(* C19: every entry point refuses a Guest caller with a permission error   *)
(* before anything is read or changed, whether or not the clearance it     *)
(* names exists: create_sales_invoice, update_document_attachment,         *)
(* update_document_status, update_clearance_status, add_comment,           *)
(* get_comments, save_payment_info, send_payment_notification and          *)
(* update_payment_receipt.                                                 *)
C19_EntryPoints ==
    {"create_sales_invoice", "update_document_attachment",
     "update_document_status", "update_clearance_status", "add_comment",
     "get_comments", "save_payment_info", "send_payment_notification",
     "update_payment_receipt"}

C20_InvoiceEventsRunTheMirror ==
    [][\A n \in Known, i \in Inserted :
        /\ ( db[n].sales_invoice = i /\ sales_invoice_on_update(i, "Paid") )
             => db'[n].payment_status = "Paid"
        /\ ( db[n].sales_invoice = i /\ sales_invoice_on_cancel(i) )
             => db'[n].sales_invoice = None
      ]_vars

(* C21: update_document_status with a row id that no row of the clearance  *)
(* has, by a caller who passes the permission check, fails with the        *)
(* not-found error and saves nothing: rows, reasons and overall status     *)
(* stay as they were, also where the check that follows a save would have  *)
(* changed the status.                                                     *)
C21_UnknownRowSavesNothing ==
    [][\A n \in Known, r \in RowNames, s \in RowStatuses, why \in Reasons :
        ( /\ ret'.op = "update_document_status"
          /\ C16_Allowed(ret'.user, db[n])
          /\ \A i \in DOMAIN Rows(db[n]) : Rows(db[n])[i].name # r
          /\ update_document_status(ret'.user, n, r, s, why) )
        => /\ ret'.err = "DoesNotExistError"
           /\ db' = db
      ]_vars

(* The call has failed for want of the row on a clearance in Document      *)
(* Submitting whose only row is optional, where the check after a save     *)
(* would have moved the status.                                            *)
C21_Witness ==
    /\ ret.op = "update_document_status"
    /\ ret.err = "DoesNotExistError"
    /\ db["CC-0001"].status = "Document Submitting"
    /\ Len(Rows(db["CC-0001"])) = 1
    /\ ~Rows(db["CC-0001"])[1].is_required

(* C22: save_payment_info is for staff: a caller whose roles are exactly   *)
(* {Customer} is refused with a permission error, and a staff caller who   *)
(* gives a payment type other than first or second gets a validation       *)
(* error; in both cases no field of the clearance changes and no           *)
(* notification is created.                                                *)
C22_StaffOnlyPaymentInfo ==
    [][\A n \in Known :
        /\ ( /\ ret'.op = "save_payment_info"
             /\ ret'.user \notin {"Guest", "Administrator"}
             /\ Roles(ret'.user) = {"Customer"} )
           => /\ ret'.err = "PermissionError"
              /\ db' = db
              /\ notifications' = notifications
        /\ \A t \in PaymentTypes \ {"first", "second"}, a \in {None, "50"},
              b \in Branches, acc \in AccountNumbers, code \in IdCodes,
              raised \in BOOLEAN :
             ( /\ ret'.op = "save_payment_info"
               /\ ret'.user \in {"Administrator", "staff@cc", "clerk@cc"}
               /\ save_payment_info(ret'.user, n, t, a, b, acc, code, raised) )
             => /\ ret'.err = "ValidationError"
                /\ db' = db
                /\ notifications' = notifications
      ]_vars

(* A pure customer has just been refused on a clearance that staff had     *)
(* already given payment details.                                          *)
C22_Witness ==
    /\ ret.op = "save_payment_info"
    /\ ret.user = "alice@a"
    /\ ret.err = "PermissionError"
    /\ db["CC-0001"].amount = "50"
    /\ db["CC-0001"].first_payment_branch = "Main"

(* C23: a checklist row that goes from Declined to In Review has its       *)
(* reason cleared by the call that moves it, be it a re-upload through     *)
(* update_document_attachment or update_document_status with status        *)
(* In Review and no reason.                                                *)
C23_ReviewAgainClearsReason ==
    [][\A n \in Known, r \in RowNames :
        ( \/ /\ ret'.op = "update_document_attachment"
             /\ \E f \in FileUrls :
                   update_document_attachment(ret'.user, n, r, f, TRUE)
          \/ /\ ret'.op = "update_document_status"
             /\ update_document_status(ret'.user, n, r, "In Review", None) )
        => \A i \in DOMAIN Rows(db[n]) :
              ( /\ ret'.err = "ok"
                /\ Rows(db[n])[i].name = r
                /\ Rows(db[n])[i].status = "Declined"
                /\ Rows(db'[n])[i].status = "In Review" )
              => Rows(db'[n])[i].reason = None
      ]_vars

(* One call of the entry point op, which checks the caller against the     *)
(* clearance's customer, by user u for the name n.                         *)
C24_Call(op, u, n) ==
    CASE op = "update_document_attachment" ->
           \E f \in FileUrls, re \in BOOLEAN :
              update_document_attachment(u, n, "row1", f, re)
      [] op = "update_document_status" ->
           \E s \in RowStatuses : update_document_status(u, n, "row1", s, None)
      [] op = "add_comment" -> \E c \in Contents : add_comment(u, n, c, None)
      [] op = "get_comments" -> get_comments(u, n)
      [] op = "update_payment_receipt" ->
           \E f \in FileUrls : update_payment_receipt(u, n, "pay1", f)
      [] OTHER -> FALSE

C24_Ops ==
    {"update_document_attachment", "update_document_status", "add_comment",
     "get_comments", "update_payment_receipt"}

(* The logged-in callers no clearance admits. *)
C24_Strangers == {"staff@cc", "bob@b"}

C25_FreeTargets ==
    {"Document Submitting", "In Review", "Review", "Green", "Yellow", "Red"}

C25_OtherTargetsUnrestricted ==
    [][\A n \in Known, s \in C25_FreeTargets :
        ( /\ ret'.op = "update_clearance_status"
          /\ ret'.user \in StaffCallers
          /\ update_clearance_status(ret'.user, n, s, None, None) )
        => /\ ret'.err = "ok"
           /\ db'[n].status =
                 IF /\ s = "Document Submitting"
                    /\ HasMandatory(db[n])
                    /\ MandatoryAccepted(db[n])
                 THEN "In Review" ELSE s
      ]_vars

(* C25, the case of Cleared: whenever the stored status is Cleared, each   *)
(* of the six targets can be stored by one call of staff.                  *)
C25_Witness ==
    /\ ret.op = "update_clearance_status"
    /\ ret.err = "ok"
    /\ ret.user = "staff@cc"
    /\ db["CC-0001"].status = "Cleared"
    /\ \A s \in C25_FreeTargets \ {"Document Submitting"} :
          LET saved == save([db["CC-0001"] EXCEPT !.status = s], "CC-0001") IN
          ~saved.thrown /\ saved.doc.status = s

(* C26: the caller whose contact links to Customer A and whose portal row  *)
(* links to Customer B resolves to Customer A and is refused with          *)
(* PermissionError on a clearance of Customer B by every entry point that  *)
(* looks up the caller's customer.                                         *)
C26_ResolverOps ==
    {"update_document_attachment", "update_document_status",
     "update_clearance_status", "add_comment", "get_comments",
     "update_payment_receipt"}

C26_ContactFirstDeniedEverywhere ==
    /\ linked_customer("carol@ab") = "Customer A"
    /\ ( /\ ret.user = "carol@ab"
         /\ ret.op \in C26_ResolverOps
         /\ db["CC-0001"].customer = "Customer B" )
       => ret.err = "PermissionError"

(* C27: on a clearance in Document Submitting whose rows are all optional, *)
(* neither a save through the attachment update nor update_document_status *)
(* on any row changes the overall status.                                  *)
C27_AllOptionalKeepsStatus ==
    [][\A n \in Known :
        ( /\ ret'.op \in {"update_document_status", "update_document_attachment"}
          /\ db[n].status = "Document Submitting"
          /\ Len(Rows(db[n])) > 0
          /\ ~HasMandatory(db[n]) )
        => db'[n].status = "Document Submitting"
      ]_vars

(* C28: the invoice status-change handler changes only payment_status and  *)
(* payment_date of the clearance linked to the invoice: status, invoice    *)
(* reference, rows and every other clearance stay as they are, the call    *)
(* never fails, and for an invoice no clearance is linked to nothing       *)
(* changes.                                                                *)
C28_SameButPayment(before, after) ==
    [after EXCEPT !.payment_status = before.payment_status,
                  !.payment_date = before.payment_date] = before

C28_MirrorFrame ==
    [][\A i \in {InvoiceNames[k] : k \in DOMAIN InvoiceNames}, st \in InvoiceStatuses :
        ( /\ ret'.op = "update_clearance_payment_status"
          /\ update_clearance_payment_status(i, st) )
        => /\ ret'.err = "ok"
           /\ DOMAIN db' = DOMAIN db
           /\ \A n \in DOMAIN db :
                 IF n \in LinkedTo(i)
                 THEN C28_SameButPayment(db[n], db'[n])
                 ELSE db'[n] = db[n]
           /\ LinkedTo(i) = {} => db' = db
           /\ invoices' = invoices
           /\ side' = side
      ]_vars

(* C28: an invoice was paid while the other clearance has its own invoice, *)
(* still pending.                                                          *)
C28_Witness ==
    /\ ret.op = "update_clearance_payment_status"
    /\ db["CC-0001"].sales_invoice = "SINV-1"
    /\ db["CC-0001"].payment_status = "Paid"
    /\ db["CC-0001"].payment_date = Days[today]
    /\ db["CC-0001"].status = "Green"
    /\ db["CC-0002"].sales_invoice = "SINV-2"
    /\ db["CC-0002"].payment_status = "Pending"

(* C29: with two create_sales_invoice requests in progress at once, once   *)
(* the requests have returned every Sales Invoice that was inserted is the *)
(* invoice some clearance refers to, so that no clearance got more than    *)
(* one invoice and none is left unreferenced.                              *)
C29_Quiet == \A w \in Workers : calls[w].pc = "idle"

C29_OneInvoiceUnderInterleaving ==
    C29_Quiet => \A i \in Inserted : LinkedTo(i) # {}

(* C30, as stated: the invoice reference of a clearance is assigned a      *)
(* non-empty value at most once, whatever create_sales_invoice calls and   *)
(* invoice cancellations happen: an assignment is the first invoice ever   *)
(* inserted for the clearance.                                             *)
C30_ReferenceSetOnce ==
    [][\A n \in Known :
        ( /\ db'[n].sales_invoice # db[n].sales_invoice
          /\ Truthy(db'[n].sales_invoice) )
        => invoices = 0
      ]_vars

(* C30: the invoice reference is assigned only while it is empty, by       *)
(* create_sales_invoice, and emptied only by the cancellation of the       *)
(* invoice it names; between two assignments there is a cancellation.      *)
C30_ReferenceSetOnlyWhenEmpty ==
    [][\A n \in Known :
        /\ ( /\ db'[n].sales_invoice # db[n].sales_invoice
             /\ Truthy(db'[n].sales_invoice) )
           => /\ ~Truthy(db[n].sales_invoice)
              /\ ret'.op = "create_sales_invoice"
              /\ ret'.err = "ok"
        /\ ( /\ Truthy(db[n].sales_invoice)
             /\ ~Truthy(db'[n].sales_invoice) )
           => ret'.op = "handle_sales_invoice_cancel"
      ]_vars

(* C30: the second invoice of the clearance, created after the first was   *)
(* cancelled.                                                              *)
C30_Witness ==
    /\ ret.op = "create_sales_invoice"
    /\ ret.err = "ok"
    /\ invoices = 2
    /\ db["CC-0001"].sales_invoice = "SINV-2"

(* C31: save_payment_info changes only the fields of the selected payment  *)
(* for which a non-empty value was given: with "first" none of             *)
(* additional_payment_amount and the second_payment_* fields, with         *)
(* "second" none of amount and the first_payment_* fields; an argument     *)
(* left out keeps its stored value, and the payments list and the document *)
(* rows stay as they are.                                                  *)
C31_Supplied(t, a, b, acc, code) ==
    IF t = "first"
    THEN {f \in {"amount"} : Truthy(a)}
         \cup {f \in {"first_payment_branch"} : Truthy(b)}
         \cup {f \in {"first_payment_account_number"} : Truthy(acc)}
         \cup {f \in {"first_payment_custom_id_code"} : Truthy(code)}
    ELSE {f \in {"additional_payment_amount"} : Truthy(a)}
         \cup {f \in {"second_payment_branch"} : Truthy(b)}
         \cup {f \in {"second_payment_account_number"} : Truthy(acc)}
         \cup {f \in {"second_payment_custom_id_code"} : Truthy(code)}

C31_OnlySuppliedFieldsChange ==
    [][\A n \in Known, t \in PaymentTypes, a \in {None, "50"}, b \in Branches,
          acc \in AccountNumbers, code \in IdCodes, raised \in BOOLEAN :
        ( /\ ret'.op = "save_payment_info"
          /\ save_payment_info(ret'.user, n, t, a, b, acc, code, raised) )
        => /\ DOMAIN db'[n] = DOMAIN db[n]
           /\ \A f \in DOMAIN db[n] :
                 db'[n][f] # db[n][f] => f \in C31_Supplied(t, a, b, acc, code)
           /\ db'[n].payments = db[n].payments
           /\ db'[n].required_documents = db[n].required_documents
      ]_vars

(* C31: the first payment was saved without a branch and the second one    *)
(* without an amount.                                                      *)
C31_Witness ==
    /\ ret.op = "save_payment_info"
    /\ ret.err = "ok"
    /\ db["CC-0001"].amount = "50"
    /\ db["CC-0001"].first_payment_branch = None
    /\ db["CC-0001"].first_payment_account_number = "ACC-1"
    /\ db["CC-0001"].additional_payment_amount = None
    /\ db["CC-0001"].second_payment_branch = "Main"

(* C32: after any sequence of invoice status changes and cancellations,    *)
(* payment_date is set only while payment_status is Paid: with Pending or  *)
(* Partially Paid the date is empty.                                       *)
C32_DateOnlyWhilePaid ==
    \A n \in DOMAIN db :
        db[n].payment_status \in {"Pending", "Partially Paid"}
        => db[n].payment_date = None

(* C33: update_clearance_status, save_payment_info and                     *)
(* send_payment_notification accept the same callers: on a clearance, each *)
(* of the three refuses with PermissionError exactly the callers the       *)
(* staff test of the other two refuses.                                    *)
C33_StaffOps ==
    {"update_clearance_status", "save_payment_info", "send_payment_notification"}

C33_SameCallers ==
    [][ ret'.op \in C33_StaffOps
        => (ret'.err = "PermissionError" <=> ~is_staff(ret'.user))
      ]_vars

(* C34: document judgments are made by staff only: as long as neither      *)
(* staff nor Administrator acts, no row of the customer's clearance is     *)
(* Accepted and the overall status stays Document Submitting.              *)
C34_CustomerCannotJudge ==
    \A n \in DOMAIN db :
        /\ \A i \in DOMAIN Rows(db[n]) : Rows(db[n])[i].status # "Accepted"
        /\ db[n].status = "Document Submitting"

(* C35: no state persisted by a save has the status Document Submitting    *)
(* together with a mandatory row and every mandatory row Accepted,         *)
(* whatever sequence of update_document_status,                            *)
(* update_document_attachment, update_clearance_status, save_payment_info  *)
(* and update_payment_receipt ran, update_clearance_status to Document     *)
(* Submitting included.                                                    *)
C35_NeverSubmittingWithAllAccepted ==
    \A n \in DOMAIN db :
        ~( /\ db[n].status = "Document Submitting"
           /\ HasMandatory(db[n])
           /\ MandatoryAccepted(db[n]) )

(* C35: a save of the payment details persisted the clearance with its    *)
(* mandatory row Accepted and its optional row Declined, In Review.        *)
C35_Witness ==
    /\ ret.op = "save_payment_info"
    /\ ret.err = "ok"
    /\ db["CC-0001"].status = "In Review"
    /\ Rows(db["CC-0001"])[1].status = "Accepted"
    /\ Rows(db["CC-0001"])[2].status = "Declined"
    /\ db["CC-0001"].amount = "50"

(* C36: a document operation never moves the overall status backwards:     *)
(* when the status is anything but Document Submitting,                    *)
(* update_document_status and update_document_attachment leave it as it    *)
(* is, whatever the row becomes.                                           *)
C36_DocumentOpsKeepLaterStatus ==
    [][\A n \in DOMAIN db :
        ( /\ ret'.op \in {"update_document_status", "update_document_attachment"}
          /\ db[n].status # "Document Submitting" )
        => db'[n].status = db[n].status
      ]_vars

(* C36: a Cleared clearance whose mandatory row has just been Declined. *)
C36_Witness ==
    /\ ret.op = "update_document_status"
    /\ ret.err = "ok"
    /\ db["CC-0001"].status = "Cleared"
    /\ Rows(db["CC-0001"])[1].is_required
    /\ Rows(db["CC-0001"])[1].status = "Declined"

(* C37: from a clearance without invoice, with payment_status Pending and  *)
(* no payment_date, after any sequence of create_sales_invoice calls,      *)
(* invoice status changes and cancellations run one at a time: whenever    *)
(* the invoice reference is empty, payment_status is Pending and           *)
(* payment_date is empty.                                                  *)
C37_NoInvoiceNoPayment ==
    \A n \in DOMAIN db :
        ~Truthy(db[n].sales_invoice)
        => /\ db[n].payment_status = "Pending"
           /\ db[n].payment_date = None

(* C37: the invoice of the clearance was cancelled and the clearance has   *)
(* no invoice, no payment and no date again.                               *)
C37_Witness ==
    /\ ret.op = "handle_sales_invoice_cancel"
    /\ invoices = 1
    /\ ~Truthy(db["CC-0001"].sales_invoice)
    /\ db["CC-0001"].payment_status = "Pending"
    /\ db["CC-0001"].payment_date = None

(* C38: every overall status a system write stores (the rollback of the    *)
(* cancellation, the promotion after a row update) is one from which the   *)
(* transition guard accepts Risk Analysis as the next saved status.        *)
(* The promotion validate makes inside the save of update_document_status  *)
(* is a guarded save and no system write.                                  *)
C38_SystemWrite(op, old, new) ==
    /\ new.status # old.status
    /\ \/ op = "handle_sales_invoice_cancel"
       \/ op = "update_document_status" /\ new.status # "In Review"

C38_SystemWriteLeavesWorkflowOpen ==
    [][\A n \in DOMAIN db :
        C38_SystemWrite(ret'.op, db[n], db'[n])
        => ~validate_status_transition([db'[n] EXCEPT !.status = "Risk Analysis"],
                                       <<db'[n]>>)
      ]_vars

(* C39: for a persisted clearance, over every operation: when the stored   *)
(* status changes to Cleared the status stored before was Risk Analysis,   *)
(* when it changes to Risk Analysis the status stored before was           *)
(* In Review, and such a change is made by the guarded save of             *)
(* update_clearance_status alone, never by a write that bypasses the       *)
(* guard.                                                                  *)
C39_GuardedOrder ==
    [][\A n \in DOMAIN db :
        /\ ( /\ db'[n].status = "Cleared"
             /\ db[n].status # "Cleared" )
           => /\ db[n].status = "Risk Analysis"
              /\ ret'.op = "update_clearance_status"
        /\ ( /\ db'[n].status = "Risk Analysis"
             /\ db[n].status # "Risk Analysis" )
           => /\ db[n].status = "In Review"
              /\ ret'.op = "update_clearance_status"
      ]_vars

(* C39: the clearance was Cleared by a status change after its invoice had *)
(* been cancelled and its row accepted.                                    *)
C39_Witness ==
    /\ ret.op = "update_clearance_status"
    /\ ret.err = "ok"
    /\ db["CC-0001"].status = "Cleared"
    /\ invoices = 1
    /\ ~Truthy(db["CC-0001"].sales_invoice)
    /\ Rows(db["CC-0001"])[1].status = "Accepted"

====
